---- MODULE Spec2Model ----
(***************************************************************************)
(* GuidedFlow: the customer widget (CustomerWidget, src/unnamed/part_000)  *)
(* and the agent portal (src/frontend/src/pages/AgentPortal.js) running a  *)
(* guide's graph step by step.                                             *)
(*                                                                         *)
(* One behaviour follows one mounted page component (one role).  Each      *)
(* action is one handler run to completion (the user acts serially); the   *)
(* outcome of every request the handler awaits is chosen with \E.          *)
(* Strings that the code trims are sequences of characters.  JavaScript    *)
(* null/undefined is the empty sequence Null, a present value x is <<x>>.  *)
(* Indices are 0-based as in the code; sequences are 1-based, hence the    *)
(* "+ 1" where a sequence is indexed.                                      *)
(* Graph nodes are the ones the authoring studio can produce (no node of   *)
(* type 'completion', no data.slug) and every stored version has a graph.  *)
(* Of an escalation the model keeps the session, the step, the message and *)
(* the history snapshot; category and contact are passed through unread.   *)
(* The runtimes never read graph.edges, so a graph is its node sequence.   *)
(*                                                                         *)
(* Specifications: Spec (the two runtimes, handlers run to completion),    *)
(* InputSpec (the answer map of a step with two inputs), StudioSpec (the   *)
(* authoring studio with its properties panel), AuthSpec (AuthContext and  *)
(* ProtectedRoute) and RaceSpec (the customer widget with every await of a *)
(* handler as a step of its own).  role names the part a behaviour         *)
(* follows; the variables of the other parts keep their initial values.    *)
(***************************************************************************)
EXTENDS Integers, Sequences, FiniteSets, TLC

\* ---- bounds ----
MaxNodes == 2       \* nodes in the graph of guide "ga"
MaxRoutes == 2      \* times the router hands the page its params (mount included)

\* ---- values ----
Null == <<>>
Some(x) == <<x>>

Chars == {" ", "a"}
\* what the user types into an input: nothing, a blank, a padded word
Values == { <<>>, <<" ">>, <<" ", "a">> }

Input(i, r) == [id |-> i, required |-> r]
NoInputs == <<>>
OptionalInput == <<Input("q1", FALSE)>>
RequiredInput == <<Input("q1", TRUE)>>

NoId == <<>>
NodeId(g, k) == <<g, k>>
Unmatched == <<"zz">>

Title(g, k) == <<"title", g, k>>

Node(g, k, vis, inps, esc) ==
    [id |-> NodeId(g, k), slug |-> Null, title |-> Title(g, k),
     type |-> IF inps = <<>> THEN "instruction" ELSE "question",
     visibility |-> vis, inputs |-> inps, escalationEnabled |-> esc]

\* the steps a graph is drawn from: <<visibility, inputs, escalationEnabled>>
NodeKinds ==
    { <<"customer", NoInputs, FALSE>>, <<"customer", OptionalInput, TRUE>>,
      <<"customer", RequiredInput, FALSE>>, <<"agent", NoInputs, TRUE>> }

\* every node sequence of guide g with at most n nodes
GraphsOf(g, n) ==
    UNION { { [k \in 1..len |-> Node(g, k, f[k][1], f[k][2], f[k][3])] :
                f \in [1..len -> NodeKinds] } : len \in 0..n }

\* the graph of guide "gb": one customer step without inputs
SecondGraph == <<Node("gb", 1, "customer", <<>>, FALSE)>>

GuideSlugs == {"ga", "gb"}      \* guides the backend lists with a current version
MissingGuide == "gx"            \* a slug no listed guide has
NoGuide == "none"               \* route without :guideSlug (agent portal only)
\* :stepSlug of the route: absent, the id of the second node of "ga", or no node's id
StepSlugs == {Null, Unmatched, NodeId("ga", 2)}
\* the agent portal never reads stepSlug, it only re-runs its effect when it changes
AgentStepSlugs == {Null, NodeId("ga", 2)}

VARIABLES
    role,         \* which part of the application this behaviour follows
    graphs,       \* backend: guide slug -> node sequence of its current version
    nextSession,  \* backend: number of sessions created so far
    completed,    \* backend: the session in progress had its complete call and
                  \* its session_completed event accepted
    routes,       \* number of times the router handed the page its params
    guideSlug, stepSlug,   \* useParams()
    guide,        \* guide / currentGuide
    version,      \* version / currentVersion
    session, currentStep, stepIndex, answers,
    crmId,        \* crmData.crm_id (agent portal)
    showEscalation, escalationMessage,   \* the escalation modal (customer widget)
    loading,
    lastOp,       \* the handler that ran last (for a panel edit: the field edited)
    requests,     \* the requests that handler issued, in order, with their outcome
    toast,        \* the notifications that handler showed, in order
    crmSaved,     \* backend: the session in progress had its CRM context patched
    invocations,  \* customer widget: the runs of its async handlers, each with the await it is at
    studioNodes, studioEdges,   \* AuthoringStudio: nodes, edges
    selectedNode, showPropertiesPanel,
    nodeData,     \* NodePropertiesPanel: its local copy of the node's data
    now,          \* Date.now()
    user, token, authLoading,   \* AuthContext
    storedToken,  \* localStorage 'token'
    mePending,    \* AuthContext: GET /api/auth/me calls of loadUser not yet settled
    path          \* the route the browser is at

vars == <<role, graphs, nextSession, completed, routes, guideSlug, stepSlug, guide, version,
          session, currentStep, stepIndex, answers, crmId, showEscalation,
          escalationMessage, loading, lastOp, requests, toast, crmSaved, invocations,
          studioNodes, studioEdges, selectedNode, showPropertiesPanel, nodeData, now,
          user, token, authLoading, storedToken, mePending, path>>

\* the state of the pages a behaviour does not follow
raceVars == <<invocations>>
studioVars == <<studioNodes, studioEdges, selectedNode, showPropertiesPanel, nodeData, now>>
authVars == <<user, token, authLoading, storedToken, mePending, path>>
otherPages == <<raceVars, studioVars, authVars>>

EmptyAnswers == [i \in {} |-> <<>>]

\* the record completeSession puts in currentStep (customer widget)
CompletionStep ==
    [id |-> NoId, slug |-> Null, title |-> <<"Thank you!">>, type |-> "completion",
     visibility |-> "none", inputs |-> <<>>, escalationEnabled |-> FALSE]

\* ---- pure helpers ----
\* String.prototype.trim on a character sequence
RECURSIVE trim(_)
trim(s) ==
    IF s = <<>> THEN s
    ELSE IF Head(s) = " " THEN trim(Tail(s))
    ELSE IF s[Len(s)] = " " THEN trim(SubSeq(s, 1, Len(s) - 1))
    ELSE s

\* nodes.filter(node => node.data?.visibility !== 'agent')
visibleNodes(nodes) ==
    LET NotAgent(n) == n.visibility # "agent"
    IN SelectSeq(nodes, NotAgent)

\* nodes.findIndex(node => node.data?.slug === stepSlug || node.id === stepSlug)
findIndex(nodes, slug) ==
    LET hits == {k \in 1..Len(nodes) : nodes[k].slug = slug \/ nodes[k].id = slug}
    IN IF hits = {} THEN -1
       ELSE (CHOOSE k \in hits : \A j \in hits : k <= j) - 1

\* missingInputs without the trim
missingInputs_noTrim(step, ans) ==
    LET Required(i) == i.required
        Missing(i) == \/ i.id \notin DOMAIN ans
                      \/ ans[i.id] = <<>>
    IN SelectSeq(SelectSeq(step.inputs, Required), Missing)

\* requiredInputs.filter(input => !answers[input.id]?.trim())
missingInputs(step, ans) ==
    LET Required(i) == i.required
        Missing(i) == \/ i.id \notin DOMAIN ans
                      \/ trim(ans[i.id]) = <<>>
    IN SelectSeq(SelectSeq(step.inputs, Required), Missing)

\* mergeAnswer keeping the value an input id already has
mergeAnswer_keepsFirst(prev, inputId, value) ==
    [i \in DOMAIN prev \cup {inputId} |->
        IF i \in DOMAIN prev THEN prev[i] ELSE value]

\* setAnswers(prev => ({...prev, [inputId]: value}))
mergeAnswer(prev, inputId, value) ==
    [i \in DOMAIN prev \cup {inputId} |-> IF i = inputId THEN value ELSE prev[i]]

Request(kind, action, stepId, ans, total, ok) ==
    [kind |-> kind, action |-> action, session_id |-> session[1],
     step_id |-> stepId, answers |-> ans, total_steps |-> total,
     message |-> <<>>, history_snapshot |-> <<>>, ok |-> ok]

\* ---- initial state: useState defaults, backend content drawn ----
\* the other pages are not mounted
OtherPagesIdle ==
    /\ invocations = <<>>
    /\ studioNodes = <<>>
    /\ studioEdges = {}
    /\ selectedNode = Null
    /\ showPropertiesPanel = FALSE
    /\ nodeData = Null
    /\ now = 0
    /\ user = Null
    /\ token = Null
    /\ authLoading = FALSE
    /\ storedToken = Null
    /\ mePending = <<>>
    /\ path = "none"

Init ==
    /\ role \in {"customer", "agent"}
    /\ \E g1 \in GraphsOf("ga", MaxNodes) :
          graphs = [g \in GuideSlugs |-> IF g = "ga" THEN g1 ELSE SecondGraph]
    /\ nextSession = 0
    /\ completed = FALSE
    /\ routes = 0
    /\ guideSlug = NoGuide
    /\ stepSlug = Null
    /\ guide = Null
    /\ version = Null
    /\ session = Null
    /\ currentStep = Null
    /\ stepIndex = 0
    /\ answers = EmptyAnswers
    /\ crmId = <<>>
    /\ showEscalation = FALSE
    /\ escalationMessage = <<>>
    /\ loading = TRUE
    /\ lastOp = "init"
    /\ requests = <<>>
    /\ toast = <<>>
    /\ crmSaved = FALSE
    /\ OtherPagesIdle

\* ---- what the page renders ----
\* CustomerWidget: past the loading and the "Guide not found" returns
CustomerMainView ==
    role = "customer" /\ ~loading /\ guide # Null /\ currentStep # Null

\* CustomerWidget: inputs and the Continue/Complete button are rendered
CustomerAtStep == CustomerMainView /\ currentStep[1].type # "completion"

CustomerCompleted == CustomerMainView /\ currentStep[1].type = "completion"

\* AgentPortal: currentVersion?.graph?.nodes?.length || 0
AgentNodeCount == IF version = Null THEN 0 ELSE Len(version[1].nodes)

\* AgentPortal: the CRM form is rendered
AgentCrmFormShown ==
    role = "agent" /\ ~loading /\ guideSlug # NoGuide /\ session # Null /\ crmId = <<>>

\* AgentPortal: the "Current Step" card is rendered
AgentStepShown ==
    role = "agent" /\ ~loading /\ guideSlug # NoGuide /\ currentStep # Null /\ crmId # <<>>

\* ---- CustomerWidget.loadGuideAndStartSession, run by the effect on [guideSlug, stepSlug] ----
\* stage: how far the loader got (0 guide list failed, 1 guide not found,
\* 2 version fetch failed, 3 session creation failed, 4 all succeeded)
\* failAt: the first request of the loader that fails (1 guide list,
\* 2 version, 3 session), 0 when none fails
loadStage(g, failAt) ==
    IF failAt = 1 THEN 0
    ELSE IF g \notin GuideSlugs THEN 1
    ELSE IF failAt = 2 THEN 2
    ELSE IF failAt = 3 THEN 3
    ELSE 4

\* targetStepIndex falling back to the last node on a miss
targetStepIndex_lastOnMiss(nodes, s) ==
    LET found == IF s # Null THEN findIndex(nodes, s) ELSE 0
    IN IF found = -1 THEN Len(nodes) - 1 ELSE found

\* the index the customer widget starts at in a non-empty node sequence
targetStepIndex(nodes, s) ==
    LET found == IF s # Null THEN findIndex(nodes, s) ELSE 0
    IN IF found = -1 THEN 0 ELSE found

loadGuideAndStartSession(g, s) ==
    \E failAt \in (IF g \in GuideSlugs THEN 0..3 ELSE 0..1) :
      LET stage == loadStage(g, failAt)
          nodes == graphs[g]
      IN /\ guide' = IF stage >= 2 THEN Some(g) ELSE guide
         /\ version' = IF stage >= 3 THEN Some([guide |-> g, nodes |-> nodes]) ELSE version
         /\ session' = IF stage = 4 THEN Some(nextSession + 1) ELSE session
         /\ nextSession' = IF stage = 4 THEN nextSession + 1 ELSE nextSession
         /\ completed' = IF stage = 4 THEN FALSE ELSE completed
         /\ crmSaved' = IF stage = 4 THEN FALSE ELSE crmSaved
         /\ IF stage = 4 /\ Len(nodes) > 0
            THEN /\ stepIndex' = targetStepIndex(nodes, s)
                 /\ currentStep' = Some(nodes[targetStepIndex(nodes, s) + 1])
            ELSE UNCHANGED <<stepIndex, currentStep>>
         /\ toast' = IF stage = 1 THEN <<"Guide not found">>
                     ELSE IF stage = 4 THEN <<>>
                     ELSE <<"Failed to load guide">>
         /\ loading' = FALSE

\* ---- AgentPortal.loadData and createSession ----
\* createSession reads currentVersion of the render whose effect called
\* loadData: the value before this load's setCurrentVersion.
loadData(g) ==
    \E failAt \in (IF g \in GuideSlugs THEN 0..3 ELSE 0..1) :
      LET stage == loadStage(g, failAt)
      IN /\ guide' = IF stage >= 2 THEN Some(g) ELSE guide
         /\ version' = IF stage >= 3 THEN Some([guide |-> g, nodes |-> graphs[g]]) ELSE version
         /\ session' = IF stage = 4 THEN Some(nextSession + 1) ELSE session
         /\ nextSession' = IF stage = 4 THEN nextSession + 1 ELSE nextSession
         /\ completed' = IF stage = 4 THEN FALSE ELSE completed
         /\ crmSaved' = IF stage = 4 THEN FALSE ELSE crmSaved
         /\ IF stage = 4 /\ AgentNodeCount > 0
            THEN /\ currentStep' = Some(version[1].nodes[1])
                 /\ stepIndex' = 0
            ELSE UNCHANGED <<stepIndex, currentStep>>
         /\ toast' = IF stage = 0 \/ stage = 2 THEN <<"Failed to load data">>
                     ELSE IF stage = 3 THEN <<"Failed to create session">>
                     ELSE <<>>
         /\ loading' = FALSE

\* the router hands the widget new params (or mounts it) and the effect runs the loader
CustomerRoute ==
    \E g \in GuideSlugs \cup {MissingGuide}, s \in StepSlugs :
      /\ role = "customer"
      /\ g # "ga" => s = Null
      /\ loading \/ <<g, s>> # <<guideSlug, stepSlug>>
      /\ routes < MaxRoutes
      /\ routes' = routes + 1
      /\ guideSlug' = g
      /\ stepSlug' = s
      /\ loadGuideAndStartSession(g, s)
      /\ lastOp' = "load"
      /\ requests' = <<>>
      /\ UNCHANGED otherPages
      /\ UNCHANGED <<showEscalation, escalationMessage, role, graphs, answers, crmId>>

AgentRoute ==
    \E g \in GuideSlugs \cup {MissingGuide, NoGuide}, s \in AgentStepSlugs :
      /\ role = "agent"
      /\ g # "ga" => s = Null
      /\ loading \/ <<g, s>> # <<guideSlug, stepSlug>>
      /\ routes < MaxRoutes
      /\ routes' = routes + 1
      /\ guideSlug' = g
      /\ stepSlug' = s
      /\ loadData(g)
      /\ lastOp' = "load"
      /\ requests' = <<>>
      /\ UNCHANGED otherPages
      /\ UNCHANGED <<showEscalation, escalationMessage, role, graphs, answers, crmId>>

\* ---- handleInputChange (both pages) ----
handleInputChange ==
    /\ CustomerAtStep
    /\ \E k \in 1..Len(currentStep[1].inputs), v \in Values :
      /\ answers' = mergeAnswer(answers, currentStep[1].inputs[k].id, v)
      /\ lastOp' = "input"
      /\ requests' = <<>>
      /\ toast' = <<>>
      /\ UNCHANGED <<otherPages, crmSaved>>
      /\ UNCHANGED <<showEscalation, escalationMessage, role, graphs, nextSession,
                     completed, routes, guideSlug, stepSlug, guide, version, session,
                     currentStep, stepIndex, crmId, loading>>

AgentPortal_handleInputChange ==
    /\ AgentStepShown
    /\ \E k \in 1..Len(currentStep[1].inputs), v \in Values :
      /\ answers' = mergeAnswer(answers, currentStep[1].inputs[k].id, v)
      /\ lastOp' = "input"
      /\ requests' = <<>>
      /\ toast' = <<>>
      /\ UNCHANGED <<otherPages, crmSaved>>
      /\ UNCHANGED <<showEscalation, escalationMessage, role, graphs, nextSession,
                     completed, routes, guideSlug, stepSlug, guide, version, session,
                     currentStep, stepIndex, crmId, loading>>

\* AgentPortal: a key typed in the CRM ID field, setCrmData(prev => ({...prev, crm_id: value}));
\* the form is rendered only while crm_id is empty, so one character is all it takes
setCrmId ==
    \E c \in Chars :
      /\ AgentCrmFormShown
      /\ crmId' = <<c>>
      /\ lastOp' = "crm"
      /\ requests' = <<>>
      /\ toast' = <<>>
      /\ UNCHANGED <<otherPages, crmSaved>>
      /\ UNCHANGED <<showEscalation, escalationMessage, role, graphs, nextSession,
                     completed, routes, guideSlug, stepSlug, guide, version, session,
                     currentStep, stepIndex, answers, loading>>

\* completeSession showing the completion step although the session_completed post failed
completeSession_ignoreEventFailure(sent, failAt) ==
    LET okComplete == failAt # 2
        okDone == failAt # 3
        complete == Request("complete", "none", NoId, EmptyAnswers, 0, okComplete)
        done == Request("event", "session_completed", NoId, EmptyAnswers, stepIndex + 1, okDone)
    IN /\ requests' = IF okComplete THEN sent \o <<complete, done>> ELSE sent \o <<complete>>
       /\ toast' = IF okComplete /\ okDone THEN <<>> ELSE <<"Failed to complete session">>
       /\ currentStep' = IF okComplete THEN Some(CompletionStep) ELSE currentStep
       /\ completed' = (completed \/ (okComplete /\ okDone))
       /\ UNCHANGED <<stepIndex, answers>>

\* ---- CustomerWidget.completeSession, called by handleStepComplete after
\* the requests in sent; it catches its own failures ----
completeSession(sent, failAt) ==
    LET okComplete == failAt # 2
        okDone == failAt # 3
        complete == Request("complete", "none", NoId, EmptyAnswers, 0, okComplete)
        done == Request("event", "session_completed", NoId, EmptyAnswers, stepIndex + 1, okDone)
    IN /\ requests' = IF okComplete THEN sent \o <<complete, done>> ELSE sent \o <<complete>>
       /\ toast' = IF okComplete /\ okDone THEN <<>> ELSE <<"Failed to complete session">>
       /\ currentStep' = IF okComplete /\ okDone THEN Some(CompletionStep) ELSE currentStep
       /\ completed' = (completed \/ (okComplete /\ okDone))
       /\ UNCHANGED <<stepIndex, answers>>

\* stepOutcome going on after a rejected event post
stepOutcome_ignoreFailure(okEvent, nextIndex, count) ==
    IF nextIndex < count THEN "next" ELSE "complete"

\* the try body of handleStepComplete after validation, in both pages: a
\* rejected event post throws into the catch, else nextIndex < nodes.length decides
stepOutcome(okEvent, nextIndex, count) ==
    IF ~okEvent THEN "failed"
    ELSE IF nextIndex < count THEN "next"
    ELSE "complete"

\* ---- CustomerWidget.handleStepComplete (the Continue / Complete button) ----
handleStepComplete ==
    /\ CustomerAtStep
    /\ lastOp' = "advance"
    /\ UNCHANGED <<otherPages, crmSaved>>
    /\ UNCHANGED <<showEscalation, escalationMessage, role, graphs, nextSession, routes,
                   guideSlug, stepSlug, guide, version, session, crmId, loading>>
    /\ IF missingInputs(currentStep[1], answers) # <<>>
       THEN /\ toast' = <<"Please fill in all required fields">>
            /\ requests' = <<>>
            /\ UNCHANGED <<currentStep, stepIndex, answers, completed>>
       ELSE \E failAt \in 0..3 :
              LET okEvent == failAt # 1
                  event == Request("event", "step_completed", currentStep[1].id,
                                   answers, 0, okEvent)
                  nextIndex == stepIndex + 1
                  nodes == visibleNodes(version[1].nodes)
                  outcome == stepOutcome(okEvent, nextIndex, Len(nodes))
              IN IF outcome = "failed"
                 THEN /\ requests' = <<event>>
                      /\ toast' = <<"Failed to complete step">>
                      /\ UNCHANGED <<currentStep, stepIndex, answers, completed>>
                 ELSE IF outcome = "next"
                 THEN /\ stepIndex' = nextIndex
                      /\ currentStep' = Some(nodes[nextIndex + 1])
                      /\ answers' = EmptyAnswers
                      /\ UNCHANGED completed
                      /\ requests' = <<event>>
                      /\ toast' = <<>>
                 ELSE completeSession(<<event>>, failAt)

\* ---- AgentPortal.completeSession: the "Complete & Generate CRM Note"
\* button, and the else branch of AgentPortal.handleStepComplete ----
AgentPortal_completeSessionBody(sent, failAt, okClipboard) ==
    LET okComplete == failAt # 2
        okDone == failAt # 3
        complete == Request("complete", "none", NoId, EmptyAnswers, 0, okComplete)
        done == Request("event", "session_completed", NoId, EmptyAnswers, stepIndex + 1, okDone)
    IN /\ requests' = IF okComplete THEN sent \o <<complete, done>> ELSE sent \o <<complete>>
       /\ toast' = IF ~(okComplete /\ okDone) THEN <<"Failed to complete session">>
                   ELSE IF okClipboard
                        THEN <<"Session completed successfully!", "CRM note copied to clipboard!">>
                        ELSE <<"Session completed successfully!">>
       /\ completed' = (completed \/ (okComplete /\ okDone))
       /\ UNCHANGED <<currentStep, stepIndex, answers>>

AgentPortal_completeSession ==
    /\ AgentStepShown
    /\ ~(stepIndex < AgentNodeCount - 1)
    /\ lastOp' = "complete"
    /\ \E failAt \in {0, 2, 3}, okClipboard \in BOOLEAN :
          AgentPortal_completeSessionBody(<<>>, failAt, okClipboard)
    /\ UNCHANGED <<otherPages, crmSaved>>
    /\ UNCHANGED <<showEscalation, escalationMessage, role, graphs, nextSession, routes,
                   guideSlug, stepSlug, guide, version, session, crmId, loading>>

\* ---- AgentPortal.handleStepComplete (the "Next Step" button) ----
AgentPortal_handleStepComplete ==
    /\ AgentStepShown
    /\ stepIndex < AgentNodeCount - 1
    /\ lastOp' = "advance"
    /\ UNCHANGED <<otherPages, crmSaved>>
    /\ UNCHANGED <<showEscalation, escalationMessage, role, graphs, nextSession, routes,
                   guideSlug, stepSlug, guide, version, session, crmId, loading>>
    /\ \E failAt \in 0..3, okClipboard \in BOOLEAN :
         LET okEvent == failAt # 1
             event == Request("event", "step_completed", currentStep[1].id,
                              answers, 0, okEvent)
             nextIndex == stepIndex + 1
             nodes == version[1].nodes
             outcome == stepOutcome(okEvent, nextIndex, Len(nodes))
         IN IF outcome = "failed"
            THEN /\ requests' = <<event>>
                 /\ toast' = <<"Failed to complete step">>
                 /\ UNCHANGED <<currentStep, stepIndex, answers, completed>>
            ELSE IF outcome = "next"
            THEN /\ stepIndex' = nextIndex
                 /\ currentStep' = Some(nodes[nextIndex + 1])
                 /\ answers' = EmptyAnswers
                 /\ UNCHANGED completed
                 /\ requests' = <<event>>
                 /\ toast' = <<>>
            ELSE AgentPortal_completeSessionBody(<<event>>, failAt, okClipboard)

\* ---- the escalation modal of the customer widget ----
\* the "Need Help?" button: setShowEscalation(true)
openEscalation ==
    /\ CustomerAtStep
    /\ currentStep[1].escalationEnabled
    /\ ~showEscalation
    /\ showEscalation' = TRUE
    /\ lastOp' = "open"
    /\ requests' = <<>>
    /\ toast' = <<>>
    /\ UNCHANGED <<otherPages, crmSaved>>
    /\ UNCHANGED <<escalationMessage, role, graphs, nextSession, completed, routes,
                   guideSlug, stepSlug, guide, version, session, currentStep, stepIndex,
                   answers, crmId, loading>>

\* the modal is rendered: the main view with showEscalation set
EscalationModalShown == CustomerMainView /\ showEscalation

\* the X and Cancel buttons of the modal: setShowEscalation(false)
closeEscalation ==
    /\ EscalationModalShown
    /\ showEscalation' = FALSE
    /\ lastOp' = "close"
    /\ requests' = <<>>
    /\ toast' = <<>>
    /\ UNCHANGED <<otherPages, crmSaved>>
    /\ UNCHANGED <<escalationMessage, role, graphs, nextSession, completed, routes,
                   guideSlug, stepSlug, guide, version, session, currentStep, stepIndex,
                   answers, crmId, loading>>

\* the textarea of the modal: setEscalationMessage(e.target.value)
setEscalationMessage ==
    /\ EscalationModalShown
    /\ \E v \in Values \ {escalationMessage} :
         escalationMessage' = v
    /\ lastOp' = "message"
    /\ requests' = <<>>
    /\ toast' = <<>>
    /\ UNCHANGED <<otherPages, crmSaved>>
    /\ UNCHANGED <<showEscalation, role, graphs, nextSession, completed, routes, guideSlug,
                   stepSlug, guide, version, session, currentStep, stepIndex, answers,
                   crmId, loading>>

\* Array.prototype.slice(0, end)
slice(seq, end) == SubSeq(seq, 1, IF end < Len(seq) THEN end ELSE Len(seq))

\* version.graph.nodes.slice(0, stepIndex + 1).map(node =>
\*    ({step: node.data?.title, answers: answers}))
historySnapshot(nodes, index, ans) ==
    [j \in 1..Len(slice(nodes, index + 1)) |->
        [step |-> slice(nodes, index + 1)[j].title, answers |-> ans]]

\* a request carrying escalationData: the post to /api/escalations, and the
\* escalation_submitted event whose props are the same escalationData
Escalation(kind, action, stepId, msg, snapshot, ok) ==
    [kind |-> kind, action |-> action, session_id |-> session[1],
     step_id |-> stepId, answers |-> EmptyAnswers, total_steps |-> 0,
     message |-> msg, history_snapshot |-> snapshot, ok |-> ok]

\* the message check of handleEscalation without the trim
blankMessage_noTrim(msg) == msg = <<>>

\* !escalationMessage.trim()
blankMessage(msg) == trim(msg) = <<>>

\* the end of the try body of handleEscalation, clearing the answers too
escalationSubmitted_clearsAnswers ==
    /\ showEscalation' = FALSE
    /\ escalationMessage' = <<>>
    /\ toast' = <<"Your issue has been escalated to our support team. They will contact you soon.">>
    /\ answers' = EmptyAnswers
    /\ UNCHANGED <<stepIndex, currentStep>>

\* the end of the try body of handleEscalation, after both posts succeeded
escalationSubmitted ==
    /\ showEscalation' = FALSE
    /\ escalationMessage' = <<>>
    /\ toast' = <<"Your issue has been escalated to our support team. They will contact you soon.">>
    /\ UNCHANGED <<stepIndex, currentStep, answers>>

\* ---- CustomerWidget.handleEscalation (the "Submit Request" button) ----
\* failAt: 1 the escalation post is rejected, 2 the event post, 0 neither
handleEscalation ==
    /\ EscalationModalShown
    /\ lastOp' = "escalate"
    /\ UNCHANGED <<otherPages, crmSaved>>
    /\ UNCHANGED <<role, graphs, nextSession, completed, routes, guideSlug, stepSlug, guide,
                   version, session, crmId, loading>>
    /\ IF blankMessage(escalationMessage)
       THEN /\ toast' = <<"Please describe your issue">>
            /\ requests' = <<>>
            /\ UNCHANGED <<showEscalation, escalationMessage, stepIndex, currentStep,
                           answers>>
       ELSE \E failAt \in 0..2 :
              LET snapshot == historySnapshot(version[1].nodes, stepIndex, answers)
                  escalation == Escalation("escalation", "none", currentStep[1].id,
                                           escalationMessage, snapshot, failAt # 1)
                  event == Escalation("event", "escalation_submitted", currentStep[1].id,
                                      escalationMessage, snapshot, failAt # 2)
              IN /\ requests' = IF failAt = 1 THEN <<escalation>> ELSE <<escalation, event>>
                 /\ IF failAt = 0
                    THEN escalationSubmitted
                    ELSE /\ toast' = <<"Failed to submit escalation">>
                         /\ UNCHANGED <<showEscalation, escalationMessage, stepIndex,
                                        currentStep, answers>>

\* ---- AgentPortal.handleEscalation (the "Escalate" button of the step card) ----
AgentPortal_handleEscalation ==
    /\ AgentStepShown
    /\ currentStep[1].escalationEnabled
    /\ lastOp' = "escalate"
    /\ \E ok \in BOOLEAN :
         /\ requests' = <<Escalation("escalation", "none", currentStep[1].id,
                                     <<"Agent escalation from step: ", currentStep[1].title>>,
                                     slice(version[1].nodes, stepIndex + 1), ok)>>
         /\ toast' = IF ok THEN <<"Escalation submitted successfully">>
                     ELSE <<"Failed to submit escalation">>
    /\ UNCHANGED <<otherPages, crmSaved>>
    /\ UNCHANGED <<showEscalation, escalationMessage, role, graphs, nextSession, completed,
                   routes, guideSlug, stepSlug, guide, version, session, currentStep,
                   stepIndex, answers, crmId, loading>>

\* ---- AgentPortal.handleCrmSubmit (the submit button of the CRM form) ----
\* failAt: the first request that fails (1 the crm-context patch, 2 the
\* crm_form_submitted event), 0 when none fails. No state of the page is set.
handleCrmSubmit ==
    /\ AgentCrmFormShown
    /\ lastOp' = "submitCrm"
    /\ IF trim(crmId) = <<>>
       THEN /\ requests' = <<>>
            /\ toast' = <<"CRM ID is required">>
            /\ UNCHANGED crmSaved
       ELSE \E failAt \in 0..2 :
              /\ requests' = IF failAt = 1
                             THEN <<Request("crm-context", "none", NoId, EmptyAnswers, 0, FALSE)>>
                             ELSE <<Request("crm-context", "none", NoId, EmptyAnswers, 0, TRUE),
                                    Request("event", "crm_form_submitted", NoId,
                                            EmptyAnswers, 0, failAt = 0)>>
              /\ toast' = IF failAt = 0 THEN <<"CRM information saved">>
                          ELSE <<"Failed to save CRM data">>
              /\ crmSaved' = (crmSaved \/ failAt # 1)
    /\ UNCHANGED otherPages
    /\ UNCHANGED <<showEscalation, escalationMessage, role, graphs, nextSession, completed,
                   routes, guideSlug, stepSlug, guide, version, session, currentStep,
                   stepIndex, answers, crmId, loading>>

Next ==
    \/ CustomerRoute
    \/ AgentRoute
    \/ handleInputChange
    \/ AgentPortal_handleInputChange
    \/ setCrmId
    \/ handleCrmSubmit
    \/ handleStepComplete
    \/ AgentPortal_handleStepComplete
    \/ AgentPortal_completeSession
    \/ openEscalation
    \/ closeEscalation
    \/ setEscalationMessage
    \/ handleEscalation
    \/ AgentPortal_handleEscalation

Spec == Init /\ [][Next]_vars

\* ---- a step with two inputs, for the answer map ----
TwoInputs(r1, r2) == <<Input("q1", r1), Input("q2", r2)>>

\* the page at the first step of "ga", a step with two inputs, before
\* anything was typed: the customer widget after its first load, the agent
\* portal after a second load of the guide and the CRM id
InputInit ==
    /\ role \in {"customer", "agent"}
    /\ \E r1 \in BOOLEAN, r2 \in BOOLEAN :
          graphs = [g \in GuideSlugs |->
                      IF g = "ga" THEN <<Node("ga", 1, "customer", TwoInputs(r1, r2), FALSE)>>
                      ELSE SecondGraph]
    /\ nextSession = IF role = "agent" THEN 2 ELSE 1
    /\ completed = FALSE
    /\ routes = nextSession
    /\ guideSlug = "ga"
    /\ stepSlug = IF role = "agent" THEN NodeId("ga", 2) ELSE Null
    /\ guide = Some("ga")
    /\ version = Some([guide |-> "ga", nodes |-> graphs["ga"]])
    /\ session = Some(nextSession)
    /\ currentStep = Some(graphs["ga"][1])
    /\ stepIndex = 0
    /\ answers = EmptyAnswers
    /\ crmId = IF role = "agent" THEN <<"a">> ELSE <<>>
    /\ showEscalation = FALSE
    /\ escalationMessage = <<>>
    /\ loading = FALSE
    /\ lastOp = IF role = "agent" THEN "crm" ELSE "load"
    /\ requests = <<>>
    /\ toast = <<>>
    /\ crmSaved = FALSE
    /\ OtherPagesIdle

InputNext ==
    \/ handleInputChange
    \/ AgentPortal_handleInputChange

InputSpec == InputInit /\ [][InputNext]_vars

\* ======================= AuthoringStudio =======================
MaxStudioNodes == 2   \* nodes on the canvas
MaxClock == 1         \* last millisecond of the clock

\* the state of the runtime pages, which a studio or auth behaviour leaves alone
runtimeVars == <<graphs, nextSession, completed, routes, guideSlug, stepSlug, guide, version,
                 session, currentStep, stepIndex, answers, crmId, showEscalation,
                 escalationMessage, loading, requests, toast, crmSaved>>

\* the runtime pages are not mounted
RuntimeIdle ==
    /\ graphs = [g \in GuideSlugs |-> <<>>]
    /\ nextSession = 0
    /\ completed = FALSE
    /\ routes = 0
    /\ guideSlug = NoGuide
    /\ stepSlug = Null
    /\ guide = Null
    /\ version = Null
    /\ session = Null
    /\ currentStep = Null
    /\ stepIndex = 0
    /\ answers = EmptyAnswers
    /\ crmId = <<>>
    /\ showEscalation = FALSE
    /\ escalationMessage = <<>>
    /\ loading = FALSE
    /\ requests = <<>>
    /\ toast = <<>>
    /\ crmSaved = FALSE

\* the add-node buttons of the toolbar (two of the four)
StudioNodeTypes == {"instruction", "question"}

\* the fields of a node's data the properties panel edits, and what is entered
PanelFields == {"title", "visibility"}
PanelValues(field) == IF field = "title" THEN {"Welcome"} ELSE {"customer", "agent"}

\* `New ${type.charAt(0).toUpperCase() + type.slice(1)}`
newTitle(type) == IF type = "instruction" THEN "New Instruction" ELSE "New Question"

\* { ...a, ...b }
spread(a, b) == [f \in DOMAIN a \cup DOMAIN b |-> IF f \in DOMAIN b THEN b[f] ELSE a[f]]

\* useState({}) of the properties panel
EmptyData == [f \in {} |-> ""]

\* NodePropertiesPanel: useState({}) followed by the effect on [selectedNode]
panelData(prev, sel) == IF sel # Null THEN sel[1].data ELSE prev

StudioInit ==
    /\ role = "studio"
    /\ RuntimeIdle
    /\ lastOp = "init"
    /\ invocations = <<>>
    /\ studioNodes = <<>>
    /\ studioEdges = {}
    /\ selectedNode = Null
    /\ showPropertiesPanel = FALSE
    /\ nodeData = Null
    /\ now = 0
    /\ user = Null
    /\ token = Null
    /\ authLoading = FALSE
    /\ storedToken = Null
    /\ mePending = <<>>
    /\ path = "none"

\* what a studio handler leaves alone
studioFrame == <<role, runtimeVars, raceVars, authVars>>

\* a millisecond passes
Tick ==
    /\ role = "studio"
    /\ now < MaxClock
    /\ now' = now + 1
    /\ lastOp' = "tick"
    /\ UNCHANGED <<studioNodes, studioEdges, selectedNode, showPropertiesPanel, nodeData>>
    /\ UNCHANGED studioFrame

\* AuthoringStudio.addNode: the id is the clock reading
addNode ==
    \E type \in StudioNodeTypes :
      LET newNode == [id |-> now,
                      data |-> [type |-> type, title |-> newTitle(type),
                                visibility |-> "customer"]]
      IN /\ role = "studio"
         /\ Len(studioNodes) < MaxStudioNodes
         /\ studioNodes' = Append(studioNodes, newNode)
         /\ selectedNode' = Some(newNode)
         /\ showPropertiesPanel' = TRUE
         /\ nodeData' = Some(newNode.data)
         /\ lastOp' = "addNode"
         /\ UNCHANGED <<studioEdges, now>>
         /\ UNCHANGED studioFrame

\* AuthoringStudio.onNodeClick: the canvas hands over the node as it is now
onNodeClick ==
    \E k \in 1..Len(studioNodes) :
      /\ role = "studio"
      /\ selectedNode' = Some(studioNodes[k])
      /\ showPropertiesPanel' = TRUE
      /\ nodeData' = Some(studioNodes[k].data)
      /\ lastOp' = "click"
      /\ UNCHANGED <<studioNodes, studioEdges, now>>
      /\ UNCHANGED studioFrame

\* AuthoringStudio.onPaneClick; the panel is unmounted and its state is gone
onPaneClick ==
    /\ role = "studio"
    /\ selectedNode # Null \/ showPropertiesPanel
    /\ selectedNode' = Null
    /\ showPropertiesPanel' = FALSE
    /\ nodeData' = Null
    /\ lastOp' = "pane"
    /\ UNCHANGED <<studioNodes, studioEdges, now>>
    /\ UNCHANGED studioFrame

\* the "Properties" button of the toolbar: setShowPropertiesPanel(!showPropertiesPanel);
\* a panel that is mounted starts from {} and takes selectedNode.data in its effect
toggleProperties ==
    /\ role = "studio"
    /\ showPropertiesPanel' = ~showPropertiesPanel
    /\ nodeData' = IF showPropertiesPanel THEN Null
                   ELSE Some(panelData(EmptyData, selectedNode))
    /\ lastOp' = "toggle"
    /\ UNCHANGED <<studioNodes, studioEdges, selectedNode, now>>
    /\ UNCHANGED studioFrame

\* the X button of the panel: onClose={() => setShowPropertiesPanel(false)}
onClose ==
    /\ role = "studio"
    /\ showPropertiesPanel
    /\ selectedNode # Null
    /\ showPropertiesPanel' = FALSE
    /\ nodeData' = Null
    /\ lastOp' = "close"
    /\ UNCHANGED <<studioNodes, studioEdges, selectedNode, now>>
    /\ UNCHANGED studioFrame

\* AuthoringStudio.updateNode
updateNode(nds, nodeId, updates) ==
    [k \in 1..Len(nds) |->
       IF nds[k].id = nodeId
       THEN [nds[k] EXCEPT !.data = spread(nds[k].data, updates)]
       ELSE nds[k]]

\* NodePropertiesPanel.handleInputChange: a field of the panel is edited
NodePropertiesPanel_handleInputChange ==
    \E field \in PanelFields :
      \E value \in PanelValues(field) :
        LET updatedData == spread(nodeData[1], [f \in {field} |-> value])
        IN /\ role = "studio"
           /\ showPropertiesPanel
           /\ selectedNode # Null
           /\ nodeData' = Some(updatedData)
           /\ studioNodes' = updateNode(studioNodes, selectedNode[1].id, updatedData)
           /\ lastOp' = field
           /\ UNCHANGED <<studioEdges, selectedNode, showPropertiesPanel, now>>
           /\ UNCHANGED studioFrame

\* AuthoringStudio.deleteNode, called by the Delete button of the panel with selectedNode.id
deleteNode ==
    LET nodeId == selectedNode[1].id
        keepsNode(n) == n.id # nodeId
    IN /\ role = "studio"
       /\ showPropertiesPanel
       /\ selectedNode # Null
       /\ studioNodes' = SelectSeq(studioNodes, keepsNode)
       /\ studioEdges' = {e \in studioEdges : e.source # nodeId /\ e.target # nodeId}
       /\ selectedNode' = Null
       /\ showPropertiesPanel' = FALSE
       /\ nodeData' = Null
       /\ lastOp' = "deleteNode"
       /\ UNCHANGED now
       /\ UNCHANGED studioFrame

\* reactflow addEdge: nothing is added when the connection exists already
addEdge(params, eds) == eds \cup {params}

\* AuthoringStudio.onConnect: a handle of one node on the canvas is dragged to another
onConnect ==
    \E i \in 1..Len(studioNodes), j \in 1..Len(studioNodes) :
      /\ role = "studio"
      /\ i # j
      /\ studioEdges' = addEdge([source |-> studioNodes[i].id, target |-> studioNodes[j].id],
                                studioEdges)
      /\ lastOp' = "connect"
      /\ UNCHANGED <<studioNodes, selectedNode, showPropertiesPanel, nodeData, now>>
      /\ UNCHANGED studioFrame

StudioNext ==
    \/ Tick
    \/ addNode
    \/ onNodeClick
    \/ onPaneClick
    \/ toggleProperties
    \/ onClose
    \/ NodePropertiesPanel_handleInputChange
    \/ deleteNode
    \/ onConnect

StudioSpec == StudioInit /\ [][StudioNext]_vars

\* ======================= AuthContext and ProtectedRoute =======================
MaxPending == 2   \* GET /api/auth/me calls in flight at once

\* the accounts of the backend, each known by the role of its user; a token
\* is known by the account it was issued for
Accounts == {"admin", "agent"}

PublicPaths == {"/login", "/widget"}
ProtectedPaths == {"/dashboard", "/studio", "/agent", "/analytics"}

\* App.js: the requiredRole prop of the ProtectedRoute around each page
requiredRoleOf(p) ==
    IF p = "/studio" \/ p = "/analytics" THEN Some([isArray |-> FALSE, roles |-> {"admin"}])
    ELSE IF p = "/agent" THEN Some([isArray |-> TRUE, roles |-> {"agent", "admin"}])
    ELSE Null

\* ProtectedRoute with the role test left out
ProtectedRoute_noRoleCheck(requiredRole) ==
    IF authLoading THEN "spinner"
    ELSE IF user = Null THEN "redirect"
    ELSE "children"

\* ProtectedRoute: what it returns
ProtectedRoute(requiredRole) ==
    IF authLoading THEN "spinner"
    ELSE IF user = Null THEN "redirect"
    ELSE IF requiredRole # Null /\ user[1] \notin requiredRole[1].roles THEN "denied"
    ELSE "children"

\* what the router renders at the current path
Rendered == IF path \in PublicPaths THEN "public" ELSE ProtectedRoute(requiredRoleOf(path))

\* AuthProvider after its first render and effects: token read from
\* localStorage, loadUser started when there is one
AuthInit ==
    /\ role = "auth"
    /\ RuntimeIdle
    /\ lastOp = "init"
    /\ invocations = <<>>
    /\ studioNodes = <<>>
    /\ studioEdges = {}
    /\ selectedNode = Null
    /\ showPropertiesPanel = FALSE
    /\ nodeData = Null
    /\ now = 0
    /\ storedToken \in {Null} \cup {Some(a) : a \in Accounts}
    /\ token = storedToken
    /\ user = Null
    /\ authLoading = (token # Null)
    /\ mePending = IF token # Null THEN <<token[1]>> ELSE <<>>
    /\ path \in PublicPaths \cup ProtectedPaths

\* what an auth step leaves alone
authFrame == <<role, lastOp, runtimeVars, raceVars, studioVars>>

\* the sequence without its i-th element
removeAt(seq, i) == [k \in 1..(Len(seq) - 1) |-> IF k < i THEN seq[k] ELSE seq[k + 1]]

\* loadUser: its GET /api/auth/me settles. A 401 goes through the response
\* interceptor, which calls logout(), before the catch block runs.
loadUser ==
    \E i \in 1..Len(mePending), outcome \in {"ok", "401", "error"} :
      /\ role = "auth"
      /\ mePending' = removeAt(mePending, i)
      /\ user' = IF outcome = "ok" THEN Some(mePending[i])
                 ELSE IF outcome = "401" THEN Null
                 ELSE user
      /\ token' = IF outcome = "ok" THEN token ELSE Null
      /\ storedToken' = IF outcome = "ok" THEN storedToken ELSE Null
      /\ authLoading' = FALSE
      /\ UNCHANGED path
      /\ UNCHANGED authFrame

\* Login.handleSubmit with AuthContext.login; the new token makes the effect
\* on [token] run loadUser again
login ==
    \E a \in Accounts, ok \in BOOLEAN, from \in ProtectedPaths :
      /\ role = "auth"
      /\ path = "/login"
      /\ Len(mePending) < MaxPending
      /\ IF ok
         THEN /\ storedToken' = Some(a)
              /\ token' = Some(a)
              /\ user' = Some(a)
              /\ mePending' = Append(mePending, a)
              /\ path' = from
         ELSE UNCHANGED <<storedToken, token, user, mePending, path>>
      /\ UNCHANGED authLoading
      /\ UNCHANGED authFrame

\* AuthContext.logout; a token that becomes null makes the effect on [token]
\* run loadUser, which only does setLoading(false)
logout ==
    /\ storedToken' = Null
    /\ token' = Null
    /\ user' = Null
    /\ authLoading' = IF token # Null THEN FALSE ELSE authLoading
    /\ UNCHANGED mePending
    /\ UNCHANGED authFrame

\* Navbar.handleLogout; the navbar is there when a user is
handleLogout ==
    /\ role = "auth"
    /\ path \in ProtectedPaths
    /\ user # Null
    /\ logout
    /\ path' = "/login"

\* the response interceptor: a request of some page is answered 401
responseInterceptor ==
    /\ role = "auth"
    /\ token # Null \/ user # Null
    /\ logout
    /\ UNCHANGED path

\* the address bar or a link
navigate ==
    \E p \in PublicPaths \cup ProtectedPaths :
      /\ role = "auth"
      /\ p # path
      /\ path' = p
      /\ UNCHANGED <<user, token, authLoading, storedToken, mePending>>
      /\ UNCHANGED authFrame

\* <Navigate to="/login" replace /> returned by ProtectedRoute
redirectToLogin ==
    /\ role = "auth"
    /\ Rendered = "redirect"
    /\ path' = "/login"
    /\ UNCHANGED <<user, token, authLoading, storedToken, mePending>>
    /\ UNCHANGED authFrame

AuthNext ==
    \/ loadUser
    \/ login
    \/ handleLogout
    \/ responseInterceptor
    \/ navigate
    \/ redirectToLogin

AuthSpec == AuthInit /\ [][AuthNext]_vars

\* ======================= CustomerWidget, one await at a time =======================
\* Here a handler of the widget is not run to completion: each of its awaits
\* is a step of its own, so that other handlers run while a request is on its
\* way. An invocation keeps what its closure captured when it was called; the
\* outcome of the request it waits for is drawn when the request is sent.
\* requests collects the advance requests of all invocations, in sending order.
MaxAdvances == 2    \* clicks on the Continue / Complete button

RaceStepSlugs == {Null, NodeId("ga", 2)}

Invocation(kind, pc, ok, g, s, sess, step, index, nodes, ans) ==
    [kind |-> kind, pc |-> pc, ok |-> ok, g |-> g, s |-> s, session |-> sess,
     step |-> step, index |-> index, nodes |-> nodes, answers |-> ans]

Settled(inv) == inv.pc \in {"done", "failed"}

Advances == SelectSeq(invocations, LAMBDA inv : inv.kind = "advance")
Loads == SelectSeq(invocations, LAMBDA inv : inv.kind = "load")

\* the graph of guide "ga" in these behaviours: two customer steps without inputs
RaceGraph == <<Node("ga", 1, "customer", NoInputs, FALSE),
               Node("ga", 2, "customer", NoInputs, FALSE)>>

RaceInit ==
    /\ Init
    /\ role = "customer"
    /\ graphs["ga"] = RaceGraph

\* what a step of the widget leaves alone
raceFrame == <<role, graphs, crmId, crmSaved, showEscalation, escalationMessage,
               studioVars, authVars>>

\* the effect on [guideSlug, stepSlug]: loadGuideAndStartSession runs up to its first await
startLoad ==
    \E g \in GuideSlugs \cup {MissingGuide}, s \in RaceStepSlugs, ok \in BOOLEAN :
      /\ role = "customer"
      /\ g # "ga" => s = Null
      /\ routes = 0 \/ <<g, s>> # <<guideSlug, stepSlug>>
      /\ routes < MaxRoutes
      /\ routes' = routes + 1
      /\ guideSlug' = g
      /\ stepSlug' = s
      /\ loading' = TRUE
      /\ invocations' = Append(invocations,
                               Invocation("load", "guides", ok, g, s, Null, Null, 0,
                                          <<>>, EmptyAnswers))
      /\ lastOp' = "load"
      /\ UNCHANGED <<nextSession, completed, guide, version, session, currentStep,
                     stepIndex, answers, requests, toast>>
      /\ UNCHANGED raceFrame

\* loadGuideAndStartSession resumes after the await it is at; a rejected
\* request jumps to catch, and every way out passes finally
loadResumes ==
    \E i \in 1..Len(invocations), ok \in BOOLEAN :
      LET inv == invocations[i]
          found == inv.g \in GuideSlugs
          nodes == graphs[inv.g]
          fails == ~inv.ok \/ (inv.pc = "guides" /\ ~found)
          last == inv.pc = "session"
      IN /\ role = "customer"
         /\ inv.kind = "load"
         /\ ~Settled(inv)
         /\ lastOp' = "load"
         /\ guide' = IF inv.pc = "guides" /\ ~fails THEN Some(inv.g) ELSE guide
         /\ version' = IF inv.pc = "version" /\ ~fails
                       THEN Some([guide |-> inv.g, nodes |-> nodes]) ELSE version
         /\ session' = IF last /\ ~fails THEN Some(nextSession + 1) ELSE session
         /\ nextSession' = IF last /\ ~fails THEN nextSession + 1 ELSE nextSession
         /\ completed' = IF last /\ ~fails THEN FALSE ELSE completed
         /\ IF last /\ ~fails /\ Len(nodes) > 0
            THEN /\ stepIndex' = targetStepIndex(nodes, inv.s)
                 /\ currentStep' = Some(nodes[targetStepIndex(nodes, inv.s) + 1])
            ELSE UNCHANGED <<stepIndex, currentStep>>
         /\ toast' = IF ~inv.ok THEN <<"Failed to load guide">>
                     ELSE IF fails THEN <<"Guide not found">>
                     ELSE <<>>
         /\ loading' = IF fails \/ last THEN FALSE ELSE loading
         /\ invocations' =
              [invocations EXCEPT ![i] =
                 IF fails THEN [inv EXCEPT !.pc = "failed"]
                 ELSE IF last THEN [inv EXCEPT !.pc = "done", !.session = Some(nextSession + 1)]
                 ELSE [inv EXCEPT !.pc = IF inv.pc = "guides" THEN "version" ELSE "session",
                                  !.ok = ok]]
         /\ UNCHANGED <<routes, guideSlug, stepSlug, answers, requests>>
         /\ UNCHANGED raceFrame

\* a request of an invocation: it carries the session of the invocation's closure
RequestOf(inv, kind, action, stepId, ans, total, ok) ==
    [Request(kind, action, stepId, ans, total, ok) EXCEPT !.session_id = inv.session[1]]

\* a click on the Continue / Complete button: handleStepComplete runs up to its first await
startAdvance ==
    \E ok \in BOOLEAN :
      /\ CustomerAtStep
      /\ Len(Advances) < MaxAdvances
      /\ lastOp' = "advance"
      /\ IF missingInputs(currentStep[1], answers) # <<>>
         THEN /\ toast' = <<"Please fill in all required fields">>
              /\ invocations' = Append(invocations,
                                       Invocation("advance", "failed", FALSE, guideSlug,
                                                  stepSlug, session, currentStep, stepIndex,
                                                  <<>>, answers))
              /\ UNCHANGED requests
         ELSE LET inv == Invocation("advance", "event", ok, guideSlug, stepSlug, session,
                                    currentStep, stepIndex,
                                    visibleNodes(version[1].nodes), answers)
              IN /\ invocations' = Append(invocations, inv)
                 /\ requests' = Append(requests,
                                       RequestOf(inv, "event", "step_completed",
                                                 currentStep[1].id, answers, 0, ok))
                 /\ UNCHANGED toast
      /\ UNCHANGED <<nextSession, completed, routes, guideSlug, stepSlug, guide, version,
                     session, currentStep, stepIndex, answers, loading>>
      /\ UNCHANGED raceFrame

\* handleStepComplete, and completeSession called by it, resume after the
\* await they are at, with the values of the render the click happened in
advanceResumes ==
    \E i \in 1..Len(invocations), ok \in BOOLEAN :
      LET inv == invocations[i]
          nextIndex == inv.index + 1
          outcome == stepOutcome(inv.ok, nextIndex, Len(inv.nodes))
          pc == IF ~inv.ok THEN "failed"
                ELSE IF inv.pc = "event" THEN (IF outcome = "next" THEN "done" ELSE "complete")
                ELSE IF inv.pc = "complete" THEN "sessionEvent"
                ELSE "done"
      IN /\ role = "customer"
         /\ inv.kind = "advance"
         /\ ~Settled(inv)
         /\ lastOp' = "advance"
         /\ invocations' =
              [invocations EXCEPT ![i] =
                 [inv EXCEPT !.pc = pc,
                             !.ok = IF pc \in {"done", "failed"} THEN inv.ok ELSE ok]]
         /\ requests' =
              IF pc = "complete"
              THEN Append(requests, RequestOf(inv, "complete", "none", NoId, EmptyAnswers, 0, ok))
              ELSE IF pc = "sessionEvent"
              THEN Append(requests, RequestOf(inv, "event", "session_completed", NoId,
                                              EmptyAnswers, inv.index + 1, ok))
              ELSE requests
         /\ toast' = IF inv.ok THEN toast
                     ELSE IF inv.pc = "event" THEN <<"Failed to complete step">>
                     ELSE <<"Failed to complete session">>
         /\ IF inv.pc = "event" /\ pc = "done"
            THEN /\ stepIndex' = nextIndex
                 /\ currentStep' = Some(inv.nodes[nextIndex + 1])
                 /\ answers' = EmptyAnswers
            ELSE IF inv.pc = "sessionEvent" /\ pc = "done"
            THEN /\ currentStep' = Some(CompletionStep)
                 /\ UNCHANGED <<stepIndex, answers>>
            ELSE UNCHANGED <<stepIndex, currentStep, answers>>
         /\ completed' = (completed \/ (inv.pc = "sessionEvent" /\ pc = "done"))
         /\ UNCHANGED <<nextSession, routes, guideSlug, stepSlug, guide, version, session,
                        loading>>
         /\ UNCHANGED raceFrame

RaceNext ==
    \/ startLoad
    \/ loadResumes
    \/ startAdvance
    \/ advanceResumes

RaceSpec == RaceInit /\ [][RaceNext]_vars

\* ======================= properties =======================

\* a step is on screen with its inputs and its advance button
AtStep == CustomerAtStep \/ AgentStepShown

\* visibleSteps(graph, role) of section 4.1 for the loaded graph
VisibleSteps ==
    IF version = Null THEN <<>>
    ELSE IF role = "customer" THEN visibleNodes(version[1].nodes)
    ELSE version[1].nodes

IsBlank(v) == \A i \in 1..Len(v) : v[i] = " "

\* isStepSatisfied(step, answers) of section 4.1
isStepSatisfied(step, ans) ==
    \A k \in 1..Len(step.inputs) :
       step.inputs[k].required =>
          /\ step.inputs[k].id \in DOMAIN ans
          /\ ~IsBlank(ans[step.inputs[k].id])

\* the step just taken ran an advance handler (a button of the step card)
AdvanceStep == lastOp' \in {"advance", "complete"}

OkRequests(reqs, kind, action) ==
    {k \in 1..Len(reqs) : reqs[k].kind = kind /\ reqs[k].action = action /\ reqs[k].ok}

Requests(reqs, kind, action) ==
    {k \in 1..Len(reqs) : reqs[k].kind = kind /\ reqs[k].action = action}

\* C1: in the customer runtime the step on screen in an AtStep state is
\* never a step whose visibility is agent.
C1_CustomerNeverShowsAgentStep ==
    CustomerAtStep => currentStep[1].visibility # "agent"

\* C2: in both runtimes an advance invoked while a required input of the
\* current step is missing or blank fails with a validation error: no
\* request is issued and index, current step and answers are unchanged.
C2_UnsatisfiedAdvanceRejected ==
    [][ (AdvanceStep /\ AtStep /\ ~isStepSatisfied(currentStep[1], answers))
        => /\ requests' = <<>>
           /\ toast' = <<"Please fill in all required fields">>
           /\ stepIndex' = stepIndex
           /\ currentStep' = currentStep
           /\ answers' = answers ]_vars

\* C3: the customer runtime's advance passes validation exactly when
\* isStepSatisfied holds for the current step and the answer map.
C3_ValidationIsStepSatisfied ==
    [][ (role = "customer" /\ AdvanceStep)
        => ((toast' # <<"Please fill in all required fields">> /\ requests' # <<>>)
              <=> isStepSatisfied(currentStep[1], answers)) ]_vars

\* C3 witness: a customer advance was rejected for a whitespace-only required answer
C3_Witness ==
    /\ role = "customer" /\ lastOp = "advance"
    /\ toast = <<"Please fill in all required fields">>
    /\ "q1" \in DOMAIN answers /\ answers["q1"] = <<" ">>

\* the session reached Completed: the customer widget shows the completion
\* step; the agent portal, which keeps the step card, reports the completion
Completed ==
    IF role = "customer" THEN CustomerCompleted
    ELSE /\ lastOp \in {"advance", "complete"}
         /\ toast # <<>>
         /\ toast[1] = "Session completed successfully!"

\* the step_completed post of the handler that ran was rejected
EventPostFailed(reqs) ==
    reqs # <<>> /\ reqs[1].action = "step_completed" /\ ~reqs[1].ok

AllOk(reqs) == \A k \in 1..Len(reqs) : reqs[k].ok

\* an advance from a satisfied step at a non-last index whose event post is rejected
C4_Case ==
    /\ AdvanceStep /\ AtStep
    /\ isStepSatisfied(currentStep[1], answers)
    /\ stepIndex + 1 < Len(VisibleSteps)
    /\ EventPostFailed(requests')

C5_Case ==
    /\ AdvanceStep /\ AtStep
    /\ isStepSatisfied(currentStep[1], answers)
    /\ stepIndex + 1 = Len(VisibleSteps)

SuccessfulAdvance ==
    /\ AdvanceStep /\ AtStep
    /\ stepIndex' = stepIndex + 1 \/ Completed'

\* C6: every successful advance, the one from the last step included, emits
\* exactly one step_completed event with the id of the step just completed
\* and the current answers; a completing advance also emits exactly one
\* session_completed event.
C6_OneStepCompletedPerAdvance ==
    [][ SuccessfulAdvance =>
          /\ Cardinality(Requests(requests', "event", "step_completed")) = 1
          /\ \A k \in Requests(requests', "event", "step_completed") :
                /\ requests'[k].step_id = currentStep[1].id
                /\ requests'[k].answers = answers
          /\ Completed' =>
                Cardinality(Requests(requests', "event", "session_completed")) = 1 ]_vars

\* C7: a successful advance from AtStep(i) with N visible steps moves to
\* AtStep(i+1), showing visibleSteps[i+1] with empty answers, when i+1 < N,
\* and to Completed exactly when i+1 = N; no advance lowers the index or
\* moves it by more than one.
C7_AdvanceMovesByOne ==
    [][ /\ SuccessfulAdvance =>
           /\ stepIndex + 1 < Len(VisibleSteps) =>
                 /\ stepIndex' = stepIndex + 1
                 /\ currentStep' = Some(VisibleSteps[stepIndex + 2])
                 /\ answers' = EmptyAnswers
           /\ Completed' <=> (stepIndex + 1 = Len(VisibleSteps))
        /\ AdvanceStep => stepIndex' \in {stepIndex, stepIndex + 1} ]_vars

\* C8: in every AtStep state "step N of M" is consistent: N = index+1 lies
\* in 1..M for M = Len(visibleSteps) and the current step is visibleSteps[index].
C8_StepOfConsistent ==
    AtStep => /\ 1 <= stepIndex + 1
              /\ stepIndex + 1 <= Len(VisibleSteps)
              /\ currentStep[1] = VisibleSteps[stepIndex + 1]

\* the last load fetched guide list and version and created the session
LoadSucceeded == lastOp = "load" /\ toast = <<>> /\ guideSlug \in GuideSlugs

Matches(node, s) == node.slug = s \/ node.id = s

\* C9: opened with an identifier that matches a step visible to the role, a
\* runtime starts at that step's position within visibleSteps(graph, role).
C9_StartsAtVisiblePosition ==
    (LoadSucceeded /\ stepSlug # Null) =>
       \A k \in 1..Len(VisibleSteps) :
          (/\ Matches(VisibleSteps[k], stepSlug)
           /\ \A j \in 1..(k - 1) : ~Matches(VisibleSteps[j], stepSlug))
          => /\ stepIndex = k - 1
             /\ currentStep = Some(VisibleSteps[k])

\* the customer widget was opened with an identifier no node of the
\* non-empty graph has
C10_Case ==
    /\ role = "customer" /\ LoadSucceeded
    /\ stepSlug # Null
    /\ Len(graphs[guideSlug]) > 0
    /\ \A k \in 1..Len(graphs[guideSlug]) : ~Matches(graphs[guideSlug][k], stepSlug)

C11_LoadedGuideIsAtStep ==
    (LoadSucceeded /\ Len(VisibleSteps) > 0)
       => /\ ~loading
          /\ currentStep # Null
          /\ role = "customer" => CustomerAtStep

\* the customer widget was last routed to a guide that is not listed or
\* whose graph has no step
C12_Case ==
    /\ role = "customer" /\ lastOp = "load"
    /\ \/ guideSlug = MissingGuide
       \/ guideSlug \in GuideSlugs /\ Len(graphs[guideSlug]) = 0

\* C12: when the requested guide does not exist or its graph has zero
\* steps, the customer runtime leaves Loading into NotFound: no step is on
\* screen, so neither advance nor escalation is available.
C12_MissingGuideIsNotFound ==
    C12_Case => /\ ~loading
                /\ ~CustomerMainView

\* the load that just ran succeeded and put the session at index 0
StartsAtIndexZero ==
    /\ lastOp' = "load" /\ LoadSucceeded'
    /\ stepIndex' = 0
    /\ Len(VisibleSteps') > 0

\* C13: starting from index 0, the steps shown over successive successful
\* advances are exactly visibleSteps(graph, role) in their order: the first
\* one shown is visibleSteps[0], a successful advance from visibleSteps[i]
\* shows visibleSteps[i+1], and the session completes after the last one,
\* so that no step is skipped, repeated or reordered.
C13_ShownStepsAreVisibleStepsInOrder ==
    [][ /\ StartsAtIndexZero => currentStep' = Some(VisibleSteps'[1])
        /\ (SuccessfulAdvance /\ stepIndex < Len(VisibleSteps)
                /\ currentStep = Some(VisibleSteps[stepIndex + 1]))
           => IF stepIndex + 1 < Len(VisibleSteps)
              THEN /\ ~Completed'
                   /\ stepIndex' = stepIndex + 1
                   /\ currentStep' = Some(VisibleSteps[stepIndex + 2])
              ELSE Completed' ]_vars

\* the step just taken ran an escalation handler
EscalationStep == lastOp' = "escalate"

\* C14: submitEscalation invoked with a message that is empty after
\* trimming fails with a validation error: no escalation record is sent, no
\* escalation_submitted event is emitted and the state (index, current
\* step, answers, session, dialog) is unchanged.
C14_BlankEscalationRejected ==
    [][ (EscalationStep /\ role = "customer" /\ IsBlank(escalationMessage))
        => /\ requests' = <<>>
           /\ toast' = <<"Please describe your issue">>
           /\ UNCHANGED <<stepIndex, currentStep, answers, session, guide, version,
                          showEscalation, escalationMessage>> ]_vars

\* C14 witness: a submit with a whitespace-only message was just rejected
C14_Witness ==
    /\ role = "customer" /\ lastOp = "escalate"
    /\ escalationMessage = <<" ">>
    /\ toast = <<"Please describe your issue">>
    /\ requests = <<>>

\* the escalation_submitted events among reqs for the session and step of reqs[k]
SubmittedEventsFor(reqs, k) ==
    {j \in Requests(reqs, "event", "escalation_submitted") :
        /\ reqs[j].session_id = reqs[k].session_id
        /\ reqs[j].step_id = reqs[k].step_id}

\* C15: in both runtimes every escalation record the escalation sink
\* accepted is accompanied by exactly one escalation_submitted event for the
\* same session and step.
C15_EscalationHasItsEvent ==
    [][ EscalationStep =>
          \A k \in OkRequests(requests', "escalation", "none") :
             Cardinality(SubmittedEventsFor(requests', k)) = 1 ]_vars

\* C16: submitEscalation, whether it succeeds, fails validation or is
\* rejected by a sink, leaves the index, the current step and the answer
\* map unchanged.
C16_EscalationKeepsEngineState ==
    [][ EscalationStep => UNCHANGED <<stepIndex, currentStep, answers>> ]_vars

\* C16 witness: an escalation was just submitted successfully from a step
\* past the first one with an answer typed in
C16_Witness ==
    /\ role = "customer" /\ lastOp = "escalate"
    /\ Len(requests) = 2 /\ AllOk(requests)
    /\ stepIndex > 0
    /\ answers # EmptyAnswers
    /\ currentStep # Null

\* the steps a history snapshot lists, by title: the customer widget's
\* entries are {step, answers}, the agent portal's are the nodes themselves
SnapshotSteps(req) ==
    [j \in 1..Len(req.history_snapshot) |->
        IF role = "customer" THEN req.history_snapshot[j].step
        ELSE req.history_snapshot[j].title]

\* C17: the history snapshot of an escalation submitted at index k contains
\* exactly k+1 entries and they are the steps visibleSteps(graph, role)[0..k]
\* in order, so it contains no step the role cannot see.
C17_SnapshotIsVisiblePrefix ==
    [][ (EscalationStep /\ AtStep) =>
          \A r \in Requests(requests', "escalation", "none") :
             /\ Len(SnapshotSteps(requests'[r])) = stepIndex + 1
             /\ stepIndex + 1 <= Len(VisibleSteps)
             /\ \A j \in 1..(stepIndex + 1) :
                   SnapshotSteps(requests'[r])[j] = VisibleSteps[j].title ]_vars

\* the handler that ran last was an advance that moved the customer to the
\* step at stepIndex: its step_completed event carries the answers recorded
\* at the step before
JustAdvanced ==
    /\ lastOp = "advance" /\ toast = <<>>
    /\ stepIndex > 0
    /\ Len(requests) = 1
    /\ requests[1].action = "step_completed" /\ requests[1].ok

\* C18: in the history snapshot of a customer escalation submitted at index
\* k the entry of each visited step j <= k carries the answers recorded at
\* step j: the entry of the current step carries the current answer map,
\* and the entry of the step just completed carries the answers its
\* step_completed event recorded.
C18_SnapshotCarriesStepAnswers ==
    [][ (EscalationStep /\ CustomerAtStep) =>
          \A r \in Requests(requests', "escalation", "none") :
             LET snapshot == requests'[r].history_snapshot
             IN /\ Len(snapshot) > stepIndex
                     => snapshot[stepIndex + 1].answers = answers
                /\ (JustAdvanced /\ Len(snapshot) >= stepIndex)
                     => snapshot[stepIndex].answers = requests[1].answers ]_vars

\* the requests among reqs that complete the session sid or report one of
\* its steps or the session itself as completed
CompletionRequests(reqs, sid) ==
    {k \in 1..Len(reqs) :
        /\ reqs[k].session_id = sid
        /\ \/ reqs[k].kind = "complete"
           \/ reqs[k].action \in {"step_completed", "session_completed"}}

\* C19: Completed is terminal in both runtimes: once the completion of a
\* session has been performed, no later user action issues a
\* complete-session call, a step_completed event or a session_completed
\* event for that session.
C19_CompletedIsTerminal ==
    [][ completed => CompletionRequests(requests', session[1]) = {} ]_vars

\* the ids of the inputs of a step
InputIdsOf(step) == {step.inputs[k].id : k \in 1..Len(step.inputs)}

C29_NoEscalationAfterCompleted ==
    [][ CustomerCompleted =>
          /\ Requests(requests', "escalation", "none") = {}
          /\ Requests(requests', "event", "escalation_submitted") = {} ]_vars


\* C30: in the agent runtime the current step (with its advance, complete and
\* escalate controls) is shown only after the CRM form has been submitted and
\* the CRM context patch of the session in progress has succeeded.
C30_StepOnlyAfterCrmSaved == AgentStepShown => crmSaved

\* C22: in the authoring studio no two nodes on the canvas have the same id,
\* whatever sequence of addNode and deleteNode produced the canvas, two
\* addNode calls within the same clock reading included.
C22_StudioIdsUnique ==
    \A i \in 1..Len(studioNodes), j \in 1..Len(studioNodes) :
      studioNodes[i].id = studioNodes[j].id => i = j

\* every edge of the canvas starts and ends at a node of the canvas
NoDanglingEdge ==
    \A e \in studioEdges :
      /\ \E k \in 1..Len(studioNodes) : studioNodes[k].id = e.source
      /\ \E k \in 1..Len(studioNodes) : studioNodes[k].id = e.target

\* the canvas after deleting the node the panel shows: that one node is gone,
\* the edges at it are gone, every other node and edge is as it was
DeletesOnlySelected ==
    \E k \in 1..Len(studioNodes) :
      /\ studioNodes[k].id = selectedNode[1].id
      /\ studioNodes' = [m \in 1..(Len(studioNodes) - 1) |->
                           IF m < k THEN studioNodes[m] ELSE studioNodes[m + 1]]
      /\ studioEdges' = {e \in studioEdges : e.source # studioNodes[k].id
                                             /\ e.target # studioNodes[k].id}

\* C25: after any sequence of addNode, onConnect, updateNode and deleteNode
\* no edge of the studio dangles, and deleteNode removes the node and the
\* edges incident to it and leaves all other nodes and edges unchanged.
C25_DeleteNodeKeepsTheRest ==
    [][ /\ NoDanglingEdge'
        /\ lastOp' = "deleteNode" => DeletesOnlySelected ]_vars

\* node k of the canvas differs from what it was in at most the given field
OnlyFieldChanged(k, field) ==
    /\ studioNodes'[k].id = studioNodes[k].id
    /\ \A f \in DOMAIN studioNodes[k].data :
         f # field => studioNodes'[k].data[f] = studioNodes[k].data[f]

\* C26: an edit of one field in the properties panel changes that field of
\* the selected node only: its other fields keep what the most recent earlier
\* edit gave them and the other nodes are unchanged, also after the panel was
\* closed and reopened with the same node selected. Stated for a canvas whose
\* ids are distinct.
C26_EditChangesOneField ==
    [][ (C22_StudioIdsUnique /\ lastOp' \in PanelFields) =>
          /\ Len(studioNodes') = Len(studioNodes)
          /\ \A k \in 1..Len(studioNodes) :
               IF studioNodes[k].id = selectedNode[1].id
               THEN OnlyFieldChanged(k, lastOp')
               ELSE studioNodes'[k] = studioNodes[k] ]_vars

\* the roles the pages are meant for: studio and analytics for admin, the
\* agent portal for agent and admin, the dashboard for every user
AllowedRoles(p) ==
    IF p = "/studio" \/ p = "/analytics" THEN {"admin"}
    ELSE IF p = "/agent" THEN {"agent", "admin"}
    ELSE Accounts

\* C23: at a protected path the page is rendered only when auth loading has
\* finished, a user is present and the user's role is one the page is meant
\* for; once loading has finished, no user gives the redirect to /login and a
\* user with another role gives the Access Denied view.
C23_ProtectedContentNeedsRole ==
    path \in ProtectedPaths =>
      /\ Rendered = "children" =>
           ~authLoading /\ user # Null /\ user[1] \in AllowedRoles(path)
      /\ (~authLoading /\ user = Null) => Rendered = "redirect"
      /\ (~authLoading /\ user # Null /\ user[1] \notin AllowedRoles(path))
           => Rendered = "denied"

C23_Witness ==
    /\ path = "/studio"
    /\ ~authLoading
    /\ user = Some("agent")
    /\ Rendered = "denied"

\* C24: in the auth context a user that is not null comes with a token that
\* is not null, after any sequence of logins, logouts, 401 responses and
\* failed user loads.
C24_UserImpliesToken == user # Null => token # Null

\* the accepted requests of one kind and action that carry the given session and step
Accepted(kind, action, sid, stepId) ==
    SelectSeq(requests, LAMBDA r : /\ r.ok /\ r.kind = kind /\ r.action = action
                                   /\ r.session_id = sid /\ r.step_id = stepId)

\* C27: when advance is invoked again on a step before the event post of the
\* first invocation has resolved, the session still emits at most one
\* step_completed event for that step, at most one complete call and at most
\* one session_completed event. Stated for behaviours in which no request is
\* rejected.
C27_OneEventPerStep ==
    (\A k \in 1..Len(requests) : requests[k].ok) =>
      \A k \in 1..Len(requests) :
        LET r == requests[k]
        IN Len(Accepted(r.kind, r.action, r.session_id, r.step_id)) <= 1

\* C28: when the route parameters changed while an earlier load was in
\* flight, then, once all loads have settled and the load for the latest
\* parameters has succeeded, guide, version, session and current step are the
\* ones of the latest parameters. Stated for behaviours without a click on
\* the advance button.
C28_LatestLoadWins ==
    ( /\ role = "customer"
      /\ Len(Loads) > 0
      /\ Len(Advances) = 0
      /\ \A k \in 1..Len(Loads) : Settled(Loads[k])
      /\ Loads[Len(Loads)].pc = "done" ) =>
      /\ guide = Some(guideSlug)
      /\ version = Some([guide |-> guideSlug, nodes |-> graphs[guideSlug]])
      /\ session = Loads[Len(Loads)].session
      /\ Len(graphs[guideSlug]) > 0 =>
           currentStep = Some(graphs[guideSlug][targetStepIndex(graphs[guideSlug], stepSlug) + 1])

====
